---- MODULE Spec2Model ----
(***************************************************************************)
(* A model of bfi_calendar.py: the cookie-store reader (load_cookies), the *)
(* page extractor (extract_search_results), the row decoder                *)
(* (parse_screening) and the day-by-day aggregation (scrape_screenings).   *)
(*                                                                         *)
(* Text is modelled as a sequence of symbols.  A symbol is a one-character *)
(* string, or (for host names only) a dot-free run of characters such as   *)
(* "org"; the symbol "." is always the single dot.  Python values parsed   *)
(* from the page are tagged records [k, v]: k names the Python type.       *)
(***************************************************************************)
EXTENDS Integers, Sequences, FiniteSets, TLC

VARIABLES
    system,             \* platform.system() of the host
    firefox_dir,        \* does the platform's Firefox directory exist
    profile_dirs,       \* names of the directories inside it, in iterdir() order
    cookies_db,         \* does <profile>/cookies.sqlite exist
    store,              \* rows of moz_cookies in the store, or "corrupt"
    domain,             \* load_cookies' argument
    temp_db,            \* does /tmp/firefox_cookies_temp.sqlite exist
    conn,               \* "none", "open" or "closed": the sqlite connection
    domains_to_search,  \* the candidate domain list
    cookies,            \* name -> value mapping built by load_cookies
    lc_pc,              \* position inside load_cookies
    lc_exc,             \* the exception load_cookies is raising, or NoExc
    copy_started,       \* has shutil.copy2 been entered
    days_ahead,         \* scrape_screenings' argument
    day_offset,         \* loop variable of scrape_screenings
    html_content,       \* last page fetched
    rows,               \* rows of the current day still to be processed
    all_screenings,     \* running collection
    seen_ids,           \* identifiers admitted so far
    pc,                 \* position inside scrape_screenings
    exc,                \* the exception scrape_screenings raised, or NoExc
    result,             \* the returned collection, or NoResult
    fetched,            \* history: outcome of each fetch_single_day call so far
    first_obs,          \* history: first admissible observation of each identifier, in order
    arg_row,            \* parse_screening's argument
    screening,          \* what parse_screening(row) did: a Screening, or an exception
    data,               \* screening.to_dict()
    loaded,             \* Screening.from_dict(data)
    arg_screenings,     \* filter_screenings' first argument
    criteria,           \* filter_screenings' keyword arguments
    results,            \* what filter_screenings returned
    venues,             \* two Venue values
    venues_equal,       \* venues[1] == venues[2]
    hashes_equal,       \* hash(venues[1]) == hash(venues[2])
    rec_pc,             \* which of the operations above has been applied
    args,               \* the parsed command line
    data_file,          \* DATA_PATH: is the catalog there, and the screenings it holds
    listed,             \* the screenings a command shows
    cmd_pc,             \* position inside the command
    exit_status         \* the exit status of the process, once it has ended

vars == <<system, firefox_dir, profile_dirs, cookies_db, store, domain, temp_db,
          conn, domains_to_search, cookies, lc_pc, lc_exc, copy_started,
          days_ahead, day_offset, html_content, rows, all_screenings, seen_ids,
          pc, exc, result, fetched, first_obs,
          arg_row, screening, data, loaded, arg_screenings, criteria, results,
          venues, venues_equal, hashes_equal, rec_pc,
          args, data_file, listed, cmd_pc, exit_status>>

cookie_vars == <<system, firefox_dir, profile_dirs, cookies_db, store, domain, temp_db,
                 conn, domains_to_search, cookies, lc_pc, lc_exc, copy_started>>

scrape_vars == <<days_ahead, day_offset, html_content, rows, all_screenings, seen_ids,
                 pc, exc, result, fetched, first_obs>>

record_vars == <<arg_row, screening, data, loaded, arg_screenings, criteria, results,
                 venues, venues_equal, hashes_equal, rec_pc>>

command_vars == <<args, data_file, listed, cmd_pc, exit_status>>

(***************************************************************************)
(* Bounds of the model.                                                    *)
(***************************************************************************)
MaxDays == 3
MaxRows == 2

(***************************************************************************)
(* Python values and exceptions.                                           *)
(***************************************************************************)
Str(s) == [k |-> "str", v |-> s]
Num(n) == [k |-> "num", v |-> n]
None == [k |-> "null", v |-> 0]
Lst(xs) == [k |-> "list", v |-> xs]
Dict == [k |-> "dict", v |-> 0]

\* The outcome of evaluating an expression: a value, or a raised exception class.
Ok(x) == [exc |-> "none", msg |-> "", val |-> x]
Raise(e) == [exc |-> e, msg |-> "", val |-> None]
RaiseMsg(e, msg) == [exc |-> e, msg |-> msg, val |-> None]

\* A raised exception as it propagates: its class and its message.
Exc(type, msg) == [type |-> type, msg |-> msg]
NoExc == Exc("none", "")

\* The first raised exception of a left-to-right evaluation, else the last value.
RECURSIVE FirstExc(_)
FirstExc(rs) ==
    IF Len(rs) = 1 \/ Head(rs).exc # "none" THEN Head(rs) ELSE FirstExc(Tail(rs))

(***************************************************************************)
(* Text helpers: str.strip, str.split, str.join, slicing, int().           *)
(***************************************************************************)
Whitespace == {" ", "\t", "\n", "\r"}
Digits == <<"0", "1", "2", "3", "4", "5", "6", "7", "8", "9">>
IsDigit(c) == \E i \in 1..10 : Digits[i] = c
DigitVal(c) == (CHOOSE i \in 1..10 : Digits[i] = c) - 1

RECURSIVE lstrip(_)
lstrip(s) == IF s # <<>> /\ Head(s) \in Whitespace THEN lstrip(Tail(s)) ELSE s

RECURSIVE rstrip(_)
rstrip(s) ==
    IF s # <<>> /\ s[Len(s)] \in Whitespace THEN rstrip(SubSeq(s, 1, Len(s) - 1)) ELSE s

strip(s) == rstrip(lstrip(s))

\* s[a:b] for 0 <= a <= b
Slice(s, a, b) ==
    LET lo == IF a > Len(s) THEN Len(s) ELSE a
        hi == IF b > Len(s) THEN Len(s) ELSE b
    IN  IF hi <= lo THEN <<>> ELSE SubSeq(s, lo + 1, hi)

\* s.split(sep) for a one-symbol separator: always at least one part
RECURSIVE split(_, _)
split(s, sep) ==
    IF \A i \in 1..Len(s) : s[i] # sep THEN <<s>>
    ELSE LET p == CHOOSE i \in 1..Len(s) : s[i] = sep /\ \A j \in 1..(i - 1) : s[j] # sep
         IN  <<SubSeq(s, 1, p - 1)>> \o split(SubSeq(s, p + 1, Len(s)), sep)

\* sep.join(parts)
RECURSIVE join(_, _)
join(parts, sep) ==
    IF parts = <<>> THEN <<>>
    ELSE IF Len(parts) = 1 THEN parts[1]
    ELSE parts[1] \o <<sep>> \o join(Tail(parts), sep)

\* parts[-n:]
LastN(parts, n) ==
    IF Len(parts) <= n THEN parts ELSE SubSeq(parts, Len(parts) - n + 1, Len(parts))

RECURSIVE DecimalValue(_)
DecimalValue(ds) ==
    IF ds = <<>> THEN 0 ELSE 10 * DecimalValue(SubSeq(ds, 1, Len(ds) - 1)) + DigitVal(ds[Len(ds)])

SelectDigits(s) == SelectSeq(s, IsDigit)

\* The digit part of an int() literal: digits, single underscores between them.
IsDigitString(s) ==
    /\ s # <<>>
    /\ IsDigit(s[1]) /\ IsDigit(s[Len(s)])
    /\ \A i \in 1..Len(s) : IsDigit(s[i]) \/ s[i] = "_"
    /\ \A i \in 1..(Len(s) - 1) : ~(s[i] = "_" /\ s[i + 1] = "_")

\* The value of a stripped int() literal: an optional sign, then the digits
int_digits(negative, digits) ==
    IF ~IsDigitString(digits) THEN Raise("ValueError")
    ELSE IF negative THEN Ok(0 - DecimalValue(SelectDigits(digits)))
    ELSE Ok(DecimalValue(SelectDigits(digits)))

int_literal(t) ==
    IF t # <<>> /\ t[1] \in {"+", "-"} THEN int_digits(t[1] = "-", Tail(t))
    ELSE int_digits(FALSE, t)

\* int(x) of a Python value
int(x) ==
    IF x.k = "num" THEN Ok(x.v)
    ELSE IF x.k # "str" THEN Raise("TypeError")
    ELSE int_literal(strip(x.v))

\* x[i] of a Python value
Item(x, i) ==
    CASE x.k = "list" -> IF i < Len(x.v) THEN Ok(x.v[i + 1]) ELSE Raise("IndexError")
      [] x.k = "str" -> IF i < Len(x.v) THEN Ok(Str(<<x.v[i + 1]>>)) ELSE Raise("IndexError")
      [] x.k = "dict" -> Raise("KeyError")
      [] OTHER -> Raise("TypeError")

\* x[a:b] of a Python value
SliceOf(x, a, b) ==
    CASE x.k = "str" -> Ok(Str(Slice(x.v, a, b)))
      [] x.k = "list" -> Ok(Lst(Slice(x.v, a, b)))
      [] OTHER -> Raise("TypeError")

\* len(x) of a row that has already been subscripted: a list or a str
len(x) == Len(x.v)

\* bool(x)
Truthy(x) ==
    CASE x.k = "str" -> x.v # <<>>
      [] x.k = "list" -> x.v # <<>>
      [] x.k = "num" -> x.v # 0
      [] x.k = "dict" -> TRUE     \* Dict stands for an object with at least one key
      [] OTHER -> FALSE

(***************************************************************************)
(* DATA MODELS                                                             *)
(***************************************************************************)
NFT2 == <<"N", "F", "T", "2">>
NFT2_GA == <<"N", "F", "T", "2", " ", "G", "A">>
Southbank_NFT2_GA ==
    <<"S", "o", "u", "t", "h", "b", "a", "n", "k", " ", "N", "F", "T", "2", " ", "G", "A">>

\* normalise_venue_short(short): [exc, val], val a text
normalise_venue_short(short) ==
    IF ~Truthy(short) THEN Ok(<<>>)
    ELSE IF short.k # "str" THEN Raise("AttributeError")
    ELSE LET s == strip(short.v)
         IN  IF s \in {Southbank_NFT2_GA, NFT2_GA} THEN Ok(NFT2) ELSE Ok(s)

Previews == <<"P", "r", "e", "v", "i", "e", "w", "s">>
Releases == <<"R", "e", "l", "e", "a", "s", "e", "s">>
Closed_captions ==
    <<"C", "l", "o", "s", "e", "d", " ", "c", "a", "p", "t", "i", "o", "n", "s">>
Audio_description ==
    <<"A", "u", "d", "i", "o", " ", "d", "e", "s", "c", "r", "i", "p", "t", "i", "o", "n">>
English_subtitles ==
    <<"E", "n", "g", "l", "i", "s", "h", " ", "s", "u", "b", "t", "i", "t", "l", "e", "s">>
Descriptive_subtitles ==
    <<"D", "e", "s", "c", "r", "i", "p", "t", "i", "v", "e", " ", "s", "u", "b", "t", "i", "t",
      "l", "e", "s", " ", "(", "o", "p", "e", "n", " ", "c", "a", "p", "t", "i", "o", "n", "s", ")">>
Relaxed_screenings ==
    <<"R", "e", "l", "a", "x", "e", "d", " ", "(", "s", "e", "n", "s", "o", "r", "y", ")", " ",
      "s", "c", "r", "e", "e", "n", "i", "n", "g", "s">>

UNWANTED_KEYWORDS ==
    {Closed_captions, Releases, Audio_description, English_subtitles,
     Descriptive_subtitles, Previews, Relaxed_screenings}

KeepKeyword(k) == strip(k) \notin UNWANTED_KEYWORDS

\* A variant that keeps every keyword
filter_keywords_keep_all(keywords) == keywords

\* filter_keywords(keywords) of a sequence of texts
filter_keywords(keywords) == SelectSeq(keywords, KeepKeyword)

\* Availability.from_code(code): the member's name
Availability_from_code(code) ==
    CASE code = Str(<<"E">>) -> "EXCELLENT"
      [] code = Str(<<"G">>) -> "GOOD"
      [] code = Str(<<"L">>) -> "LIMITED"
      [] code = Str(<<"S">>) -> "SOLD_OUT"
      [] OTHER -> "UNKNOWN"

\* SalesStatus.from_code(code): the member's name
SalesStatus_from_code(code) ==
    CASE code = Str(<<"S">>) -> "ON_SALE"
      [] code = Str(<<"N">>) -> "NOT_ON_SALE"
      [] OTHER -> "UNKNOWN"

(***************************************************************************)
(* html.unescape and datetime.datetime, as parse_screening uses them.      *)
(***************************************************************************)
\* Named character references of the model: amp, lt, gt, quot (each also
\* recognised without its semicolon, as in the HTML5 table).
EntityNames ==
    <<  <<"a", "m", "p">>,  <<"l", "t">>,  <<"g", "t">>,  <<"q", "u", "o", "t">>  >>
EntityChars == <<"&", "<", ">", "\"">>

StartsWith(s, p) == Len(s) >= Len(p) /\ SubSeq(s, 1, Len(p)) = p

RECURSIVE UnescapeText(_)
UnescapeText(s) ==
    IF s = <<>> THEN <<>>
    ELSE IF Head(s) # "&" THEN <<Head(s)>> \o UnescapeText(Tail(s))
    ELSE LET rest == Tail(s)
             hits == {i \in 1..Len(EntityNames) : StartsWith(rest, EntityNames[i])}
         IN  IF hits = {} THEN <<"&">> \o UnescapeText(rest)
             ELSE LET i == CHOOSE j \in hits : TRUE
                      after == SubSeq(rest, Len(EntityNames[i]) + 1, Len(rest))
                      tail == IF after # <<>> /\ Head(after) = ";" THEN Tail(after) ELSE after
                  IN  <<EntityChars[i]>> \o UnescapeText(tail)

\* html.unescape(s) of a Python value: `'&' not in s` then the substitution
html_unescape(x) ==
    CASE x.k = "str" -> Ok(Str(UnescapeText(x.v)))
      [] x.k = "list" ->
            IF \A i \in 1..Len(x.v) : x.v[i] # Str(<<"&">>) THEN Ok(x) ELSE Raise("TypeError")
      [] OTHER -> Raise("TypeError")

IsLeap(y) == (y % 4 = 0 /\ y % 100 # 0) \/ y % 400 = 0
DaysInMonth(y, m) ==
    IF m = 2 THEN (IF IsLeap(y) THEN 29 ELSE 28)
    ELSE IF m \in {4, 6, 9, 11} THEN 30 ELSE 31

MINYEAR == 1
MAXYEAR == 9999

\* dt.datetime(year, month, day, hour, minute)
datetime(year, month, day, hour, minute) ==
    IF /\ year \in MINYEAR..MAXYEAR
       /\ month \in 1..12
       /\ day \in 1..DaysInMonth(year, month)
       /\ hour \in 0..23
       /\ minute \in 0..59
    THEN Ok(<<year, month, day, hour, minute>>)
    ELSE Raise("ValueError")

\* a <= b for two date-times
RECURSIVE TupleLE(_, _)
TupleLE(a, b) ==
    IF a = <<>> THEN TRUE
    ELSE IF Head(a) # Head(b) THEN Head(a) < Head(b)
    ELSE TupleLE(Tail(a), Tail(b))

(***************************************************************************)
(* FIELD MAPPING                                                           *)
(***************************************************************************)
Fields_ID == 0
Fields_TITLE == 5
Fields_TIME == 8
Fields_DAY == 9
Fields_MONTH == 10
Fields_YEAR == 11
Fields_SALES_STATUS == 14
Fields_AVAILABILITY == 15
Fields_SEATS_AVAILABLE == 16
Fields_KEYWORDS == 17
Fields_ARTICLE_URL == 18
Fields_VENUE_ID == 62
Fields_VENUE_NAME == 63
Fields_VENUE_SHORT == 64
Fields_MIN_PRICE == 80
Fields_MAX_PRICE == 81





\* int(r) of an evaluation that may already have raised
IntOf(r) == IF r.exc # "none" THEN r ELSE int(r.val)

\* row[i][a:b]
ItemSlice(x, a, b) == IF x.exc # "none" THEN x ELSE SliceOf(x.val, a, b)

\* A variant that passes the source month on unchanged
datetime_of_month_unshifted(first, c) ==
    IF first.exc # "none" THEN first
    ELSE datetime(c[1].val, c[2].val, c[3].val, c[4].val, c[5].val)

\* dt.datetime(...) of the five evaluated components, unless one of them raised
datetime_of(first, c) ==
    IF first.exc # "none" THEN first
    ELSE datetime(c[1].val, c[2].val + 1, c[3].val, c[4].val, c[5].val)

int_all(raw) == [i \in 1..Len(raw) |-> IntOf(raw[i])]

first_then_datetime(c) == datetime_of(FirstExc(c), c)

\* lines 251-257: the five components, left to right, then the constructor
screening_dt(row) ==
    first_then_datetime(int_all(<<Item(row, Fields_YEAR),
                                  Item(row, Fields_MONTH),
                                  Item(row, Fields_DAY),
                                  ItemSlice(Item(row, Fields_TIME), 0, 2),
                                  ItemSlice(Item(row, Fields_TIME), 3, 5)>>))

\* row[i] if len(row) > i else dflt   (row is a list or a str here)
ItemOr(row, i, dflt) == IF len(row) > i THEN Item(row, i).val ELSE dflt

StripText(k) == strip(k)
NonBlank(k) == strip(k) # <<>>

strip_all(parts) == [i \in 1..Len(parts) |-> StripText(parts[i])]

keywords_from(keywords_raw) ==
    IF keywords_raw.k # "str" THEN Raise("AttributeError")
    ELSE Ok(filter_keywords(strip_all(SelectSeq(split(keywords_raw.v, ","), NonBlank))))

\* lines 259-260
keywords_of(row) == keywords_from(ItemOr(row, Fields_KEYWORDS, Str(<<>>)))

\* str(x).isdigit() for the values of the model
StrIsDigit(x) ==
    CASE x.k = "str" -> x.v # <<>> /\ \A i \in 1..Len(x.v) : IsDigit(x.v[i])
      [] x.k = "num" -> x.v >= 0
      [] OTHER -> FALSE

seats_from(seats_raw) ==
    IF Truthy(seats_raw) /\ StrIsDigit(seats_raw) THEN int(seats_raw) ELSE Ok(None)

\* lines 262-263
seats_of(row) == seats_from(ItemOr(row, Fields_SEATS_AVAILABLE, None))

\* html.unescape(row[TITLE])
title_of(rawtitle) == IF rawtitle.exc # "none" THEN rawtitle ELSE html_unescape(rawtitle.val)

\* lines 265-283: the constructor call, every argument already evaluated
Screening(row, first, when, kw, seats, id, title, short, avail, sales) ==
    IF first.exc # "none" THEN first
    ELSE Ok([id |-> id.val,
             title |-> title.val,
             datetime |-> when.val,
             venue |-> [id |-> ItemOr(row, Fields_VENUE_ID, Str(<<>>)),
                        name |-> ItemOr(row, Fields_VENUE_NAME, Str(<<>>)),
                        short_name |-> short.val],
             availability |-> Availability_from_code(avail.val),
             sales_status |-> SalesStatus_from_code(sales.val),
             seats_available |-> seats.val,
             keywords |-> kw.val,
             min_price |-> ItemOr(row, Fields_MIN_PRICE, None),
             max_price |-> ItemOr(row, Fields_MAX_PRICE, None),
             article_url |-> ItemOr(row, Fields_ARTICLE_URL, None)])

\* The evaluations of parse_screening in the order Python makes them
screening_of(row, e) ==
    Screening(row, FirstExc(e), e[1], e[2], e[3], e[4], e[5], e[6], e[7], e[8])

\* lines 259-283, reached once the date-time has been built
parse_rest(row, when) ==
    IF when.exc # "none" THEN when
    ELSE screening_of(row,
            << when,
               keywords_of(row),
               seats_of(row),
               Item(row, Fields_ID),
               title_of(Item(row, Fields_TITLE)),
               normalise_venue_short(ItemOr(row, Fields_VENUE_SHORT, Str(<<>>))),
               Item(row, Fields_AVAILABILITY),
               Item(row, Fields_SALES_STATUS) >>)

\* parse_screening(row): [exc, val], val the Screening
parse_screening(row) == parse_rest(row, screening_dt(row))

(***************************************************************************)
(* COOKIE HANDLING                                                         *)
(***************************************************************************)
RecognisedSystems == {"Linux", "Darwin", "Windows"}

Contains(s, p) == \E i \in 0..(Len(s) - Len(p)) : SubSeq(s, i + 1, i + Len(p)) = p

Upper == <<"A", "B", "C", "D", "E", "F", "G", "H", "I", "J", "K", "L", "M",
           "N", "O", "P", "Q", "R", "S", "T", "U", "V", "W", "X", "Y", "Z">>
Lower == <<"a", "b", "c", "d", "e", "f", "g", "h", "i", "j", "k", "l", "m",
           "n", "o", "p", "q", "r", "s", "t", "u", "v", "w", "x", "y", "z">>
LowerChar(c) == IF \E i \in 1..Len(Upper) : Upper[i] = c
                THEN Lower[CHOOSE i \in 1..Len(Upper) : Upper[i] = c] ELSE c
\* str.lower() over the ASCII letters
lower(s) == [i \in 1..Len(s) |-> LowerChar(s[i])]

dot_default == <<".", "d", "e", "f", "a", "u", "l", "t">>
default_word == <<"d", "e", "f", "a", "u", "l", "t">>
dot_default_release == dot_default \o <<"-", "r", "e", "l", "e", "a", "s", "e">>

\* lines 315-318: the directory entries that look like a profile
IsProfileDir(item) ==
    item.is_dir /\ (Contains(item.name, dot_default) \/ Contains(lower(item.name), default_word))

IsDefaultRelease(item) == Contains(item.name, dot_default_release)

\* get_firefox_profile_path(): the profile's name as Str, or None
get_firefox_profile_path(sys, dir_exists, entries) ==
    IF sys \notin RecognisedSystems THEN None
    ELSE IF ~dir_exists THEN None
    ELSE LET dirs == SelectSeq(entries, IsProfileDir)
             rel == SelectSeq(dirs, IsDefaultRelease)
         IN  IF rel # <<>> THEN Str(rel[1].name)
             ELSE IF dirs # <<>> THEN Str(dirs[1].name)
             ELSE None

ProfileNotFound == Exc("RuntimeError", "Could not find Firefox profile. Make sure Firefox is installed.")
DatabaseNotFound == Exc("RuntimeError", "Firefox cookies database not found")
NoCookiesFound == Exc("RuntimeError", "No cookies found")
CopyFailed == Exc("OSError", "copy2")
ConnectFailed == Exc("sqlite3.OperationalError", "unable to open database file")
QueryFailed == Exc("sqlite3.DatabaseError", "file is not a database")

two_part_tlds ==
    { <<"org", ".", "uk">>, <<"co", ".", "uk">>, <<"ac", ".", "uk">>, <<"gov", ".", "uk">>,
      <<"com", ".", "au">>, <<"co", ".", "nz">>, <<"co", ".", "jp">> }

\* lines 365-372: the parent domain as Str, or None
parent_domain_of(parts) ==
    LET potential_tld == join(LastN(parts, 2), ".")
    IN  IF potential_tld \in two_part_tlds /\ Len(parts) > 3 THEN Str(join(LastN(parts, 3), "."))
        ELSE IF Len(parts) > 2 THEN Str(join(LastN(parts, 2), "."))
        ELSE None

\* lines 361-376: the candidate domain list of a host
build_domains(host) ==
    LET base == <<host, <<".">> \o host>>
        parts == split(host, ".")
    IN  IF Len(parts) >= 2
        THEN LET parent_domain == parent_domain_of(parts)
             IN  IF Truthy(parent_domain) /\ parent_domain.v # host
                 THEN base \o << <<".">> \o parent_domain.v, parent_domain.v >>
                 ELSE base
        ELSE base

InList(x, xs) == \E i \in 1..Len(xs) : xs[i] = x

\* lines 386-389: later rows overwrite earlier ones of the same name
RECURSIVE cookie_dict(_, _)
cookie_dict(table, hosts) ==
    IF table = <<>> THEN <<>>
    ELSE LET n == Len(table)
             before == cookie_dict(SubSeq(table, 1, n - 1), hosts)
         IN  IF InList(table[n].host, hosts)
             THEN (table[n].name :> table[n].value) @@ before
             ELSE before

(***************************************************************************)
(* The environments load_cookies is run in.                                *)
(***************************************************************************)
WhatsonHost == <<"whatson", ".", "bfi", ".", "org", ".", "uk">>
BfiCookieHost == <<".", "bfi", ".", "org", ".", "uk">>

Entry(name, is_dir) == [name |-> name, is_dir |-> is_dir]
ProfileRelease == Entry(<<"a", "b">> \o dot_default_release, TRUE)
ProfileDefault == Entry(<<"c">> \o dot_default, TRUE)
ProfileUpper == Entry(<<"D", "E", "F", "A", "U", "L", "T">>, TRUE)
CrashReports == Entry(<<"C", "r", "a", "s", "h">>, TRUE)
DefaultFile == Entry(<<"x">> \o dot_default, FALSE)

Listings ==
    { <<>>, <<CrashReports, DefaultFile>>, <<ProfileDefault, ProfileRelease>>,
      <<CrashReports, ProfileUpper>> }

Cookie(name, value, host) == [name |-> name, value |-> value, host |-> host]
StoreBfi ==
    << Cookie("cf_clearance", "v1", BfiCookieHost),
       Cookie("__cf_bm", "v2", WhatsonHost),
       Cookie("__cf_bm", "v3", BfiCookieHost),
       Cookie("sid", "v4", <<"bfi", ".", "bfi">>) >>
StoreOther == << Cookie("sid", "v4", <<"bfi", ".", "bfi">>) >>
Store(table) == [valid |-> TRUE, table |-> table]
CorruptStore == [valid |-> FALSE, table |-> <<>>]
Stores == { Store(<<>>), Store(StoreBfi), Store(StoreOther), CorruptStore }

Systems == RecognisedSystems \cup {"Java"}

\* Every sequence over S of length at most n
RECURSIVE SeqsUpTo(_, _)
SeqsUpTo(S, n) ==
    IF n = 0 THEN {<<>>}
    ELSE LET shorter == SeqsUpTo(S, n - 1)
         IN  shorter \cup {Append(s, x) : s \in {t \in shorter : Len(t) = n - 1}, x \in S}


CookieHosts ==
    { WhatsonHost, BfiCookieHost, <<"bfi", ".", "org", ".", "uk">>, <<"bfi", ".", "bfi">> }

Env(sys, dir_exists, entries, db, st) ==
    [system |-> sys, firefox_dir |-> dir_exists, profile_dirs |-> entries,
     cookies_db |-> db, store |-> st]

AllEnvs ==
    { Env(sys, d, l, db, st) :
        sys \in Systems, d \in BOOLEAN, l \in Listings, db \in BOOLEAN, st \in Stores }

\* The environments scrape_screenings is run in: one per way load_cookies can end.
ScrapeEnvs ==
    { Env("Linux", TRUE, <<ProfileDefault, ProfileRelease>>, TRUE, Store(StoreBfi)),
      Env("Java", TRUE, <<ProfileDefault, ProfileRelease>>, TRUE, Store(StoreBfi)),
      Env("Darwin", FALSE, <<>>, FALSE, Store(<<>>)),
      Env("Windows", TRUE, <<CrashReports, DefaultFile>>, FALSE, Store(<<>>)),
      Env("Windows", TRUE, <<CrashReports, ProfileUpper>>, FALSE, Store(<<>>)),
      Env("Linux", TRUE, <<ProfileDefault, ProfileRelease>>, TRUE, Store(StoreOther)),
      Env("Darwin", TRUE, <<ProfileDefault, ProfileRelease>>, TRUE, CorruptStore) }

(***************************************************************************)
(* load_cookies, step by step.                                             *)
(***************************************************************************)
LcRaise(e) == lc_exc' = e /\ lc_pc' = "raised"

\* lines 339-345
LC_GetProfile ==
    /\ lc_pc = "profile"
    /\ IF get_firefox_profile_path(system, firefox_dir, profile_dirs) = None
       THEN LcRaise(ProfileNotFound)
       ELSE lc_pc' = "db_check" /\ UNCHANGED lc_exc
    /\ UNCHANGED <<system, firefox_dir, profile_dirs, cookies_db, store, domain, temp_db,
                   conn, domains_to_search, cookies, copy_started>>
    /\ UNCHANGED <<scrape_vars, record_vars, command_vars>>

\* lines 347-351
LC_CheckDb ==
    /\ lc_pc = "db_check"
    /\ IF ~cookies_db
       THEN LcRaise(DatabaseNotFound)
       ELSE lc_pc' = "copy" /\ UNCHANGED lc_exc
    /\ UNCHANGED <<system, firefox_dir, profile_dirs, cookies_db, store, domain, temp_db,
                   conn, domains_to_search, cookies, copy_started>>
    /\ UNCHANGED <<scrape_vars, record_vars, command_vars>>

CopyOutcomes == {"copied", "failed_before_create", "failed_after_create"}

\* lines 353-354: shutil.copy2 runs before the try block is entered
LC_Copy ==
    /\ lc_pc = "copy"
    /\ copy_started' = TRUE
    /\ \E outcome \in CopyOutcomes :
         /\ temp_db' = IF outcome = "failed_before_create" THEN temp_db ELSE TRUE
         /\ IF outcome = "copied"
            THEN lc_pc' = "connect" /\ UNCHANGED lc_exc
            ELSE LcRaise(CopyFailed)
    /\ UNCHANGED <<system, firefox_dir, profile_dirs, cookies_db, store, domain,
                   conn, domains_to_search, cookies>>
    /\ UNCHANGED <<scrape_vars, record_vars, command_vars>>

\* lines 356-358
LC_Connect ==
    /\ lc_pc = "connect"
    /\ \E opened \in BOOLEAN :
         IF opened
         THEN conn' = "open" /\ lc_pc' = "domains" /\ UNCHANGED lc_exc
         ELSE conn' = conn /\ lc_pc' = "finally" /\ lc_exc' = ConnectFailed
    /\ UNCHANGED <<system, firefox_dir, profile_dirs, cookies_db, store, domain, temp_db,
                   domains_to_search, cookies, copy_started>>
    /\ UNCHANGED <<scrape_vars, record_vars, command_vars>>

\* lines 360-378
LC_BuildDomains ==
    /\ lc_pc = "domains"
    /\ domains_to_search' = build_domains(domain)
    /\ lc_pc' = "query"
    /\ UNCHANGED <<system, firefox_dir, profile_dirs, cookies_db, store, domain, temp_db,
                   conn, cookies, lc_exc, copy_started>>
    /\ UNCHANGED <<scrape_vars, record_vars, command_vars>>

\* lines 380-391
LC_Query ==
    /\ lc_pc = "query"
    /\ IF store.valid
       THEN /\ cookies' = cookie_dict(store.table, domains_to_search)
            /\ conn' = "closed"
            /\ lc_pc' = "check"
            /\ UNCHANGED lc_exc
       ELSE /\ lc_exc' = QueryFailed
            /\ lc_pc' = "finally"
            /\ UNCHANGED <<cookies, conn>>
    /\ UNCHANGED <<system, firefox_dir, profile_dirs, cookies_db, store, domain, temp_db,
                   domains_to_search, copy_started>>
    /\ UNCHANGED <<scrape_vars, record_vars, command_vars>>

\* lines 393-403
LC_Check ==
    /\ lc_pc = "check"
    /\ lc_exc' = IF DOMAIN cookies = {} THEN NoCookiesFound ELSE NoExc
    /\ lc_pc' = "finally"
    /\ UNCHANGED <<system, firefox_dir, profile_dirs, cookies_db, store, domain, temp_db,
                   conn, domains_to_search, cookies, copy_started>>
    /\ UNCHANGED <<scrape_vars, record_vars, command_vars>>

\* lines 405-407
LC_Finally ==
    /\ lc_pc = "finally"
    /\ temp_db' = FALSE
    /\ lc_pc' = IF lc_exc = NoExc THEN "returned" ELSE "raised"
    /\ UNCHANGED <<system, firefox_dir, profile_dirs, cookies_db, store, domain,
                   conn, domains_to_search, cookies, lc_exc, copy_started>>
    /\ UNCHANGED <<scrape_vars, record_vars, command_vars>>

load_cookies ==
    \/ LC_GetProfile
    \/ LC_CheckDb
    \/ LC_Copy
    \/ LC_Connect
    \/ LC_BuildDomains
    \/ LC_Query
    \/ LC_Check
    \/ LC_Finally

NoResult == <<"no result">>
NoPage == [articleContext |-> FALSE, cf_browser_verification |-> FALSE,
           challenge_platform |-> FALSE,
           searchResults |-> [match |-> FALSE, blank |-> TRUE, parses |-> FALSE, rows |-> <<>>]]

ScrapeIdle ==
    /\ days_ahead = 0 /\ day_offset = 0 /\ html_content = NoPage /\ rows = <<>>
    /\ all_screenings = <<>> /\ seen_ids = {} /\ exc = NoExc /\ result = NoResult
    /\ fetched = <<>> /\ first_obs = <<>>

\* No row has been decoded, no collection filtered, no venues compared
NotApplied == [exc |-> "not applied", msg |-> "", val |-> None]
NoCriteria == [venue |-> None, available_only |-> FALSE, title_contains |-> None,
               keyword |-> None]

RecordsIdle ==
    /\ arg_row = None /\ screening = NotApplied /\ data = None /\ loaded = NotApplied
    /\ arg_screenings = <<>> /\ criteria = NoCriteria /\ results = <<>>
    /\ venues = <<>> /\ venues_equal = FALSE /\ hashes_equal = FALSE
    /\ rec_pc = "idle"

\* No command is running
NoArgs == [command |-> "none", days |-> 0, refresh |-> FALSE, criteria |-> NoCriteria]
NoFile == [exists |-> FALSE, screenings |-> <<>>]

CommandsIdle ==
    /\ args = NoArgs /\ data_file = NoFile /\ listed = <<>> /\ cmd_pc = "idle"
    /\ exit_status = 0

CookiesIdle(env) ==
    /\ system = env.system /\ firefox_dir = env.firefox_dir
    /\ profile_dirs = env.profile_dirs /\ cookies_db = env.cookies_db /\ store = env.store
    /\ temp_db = FALSE /\ conn = "none" /\ domains_to_search = <<>> /\ cookies = <<>>
    /\ lc_exc = NoExc /\ copy_started = FALSE

\* load_cookies(domain) called on its own, in any environment
InitCookies ==
    /\ \E env \in AllEnvs : CookiesIdle(env)
    /\ domain \in CookieHosts
    /\ lc_pc = "profile"
    /\ pc = "idle" /\ ScrapeIdle
    /\ RecordsIdle /\ CommandsIdle

NextCookies == load_cookies

SpecCookies == InitCookies /\ [][NextCookies]_vars


(***************************************************************************)
(* HTTP REQUEST HANDLING and HTML PARSING                                  *)
(***************************************************************************)
Forbidden403 == Exc("RuntimeError", "Cloudflare returned 403. Cookies may have expired")
Challenged == Exc("RuntimeError", "Hit Cloudflare challenge. Cookies may be expired.")

\* What requests.get does: it raises, or it returns a response
Failure(e) == [raised |-> e, status_code |-> 0, text |-> NoPage]
Response(status_code, text) == [raised |-> "none", status_code |-> status_code, text |-> text]

\* A variant that answers a failed request with an empty page
fetch_single_day_swallowing_failures(response) ==
    IF response.raised # "none" THEN Ok(NoPage)
    ELSE IF response.status_code >= 400 /\ response.status_code < 600 THEN Ok(NoPage)
    ELSE Ok(response.text)

\* fetch_single_day, lines 502-519
fetch_single_day(response) ==
    IF response.raised # "none" THEN RaiseMsg(response.raised, "requests.get")
    ELSE IF response.status_code = 403 THEN RaiseMsg(Forbidden403.type, Forbidden403.msg)
    ELSE IF response.status_code >= 400 /\ response.status_code < 600
         THEN RaiseMsg("requests.HTTPError", "raise_for_status")
    ELSE Ok(response.text)

\* A page: which marker texts it contains, and what the searchResults pattern
\* captures in it (match: the pattern matches; blank: the capture is empty;
\* parses: json.loads accepts the repaired capture, giving rows).
Page(ac, cf, cp, sr) ==
    [articleContext |-> ac, cf_browser_verification |-> cf, challenge_platform |-> cp,
     searchResults |-> sr]
NoMatch == [match |-> FALSE, blank |-> TRUE, parses |-> FALSE, rows |-> <<>>]
BlankCapture == [match |-> TRUE, blank |-> TRUE, parses |-> FALSE, rows |-> <<>>]
BadCapture == [match |-> TRUE, blank |-> FALSE, parses |-> FALSE, rows |-> <<>>]
GoodCapture(rs) == [match |-> TRUE, blank |-> FALSE, parses |-> TRUE, rows |-> rs]

\* A variant that looks for the challenge markers before anything else
extract_marker_first(html) ==
    IF html.cf_browser_verification \/ html.challenge_platform
    THEN RaiseMsg(Challenged.type, Challenged.msg)
    ELSE IF ~html.articleContext THEN Ok(<<>>)
    ELSE IF ~html.searchResults.match \/ html.searchResults.blank THEN Ok(<<>>)
    ELSE IF html.searchResults.parses THEN Ok(html.searchResults.rows)
    ELSE Ok(<<>>)

\* A variant that treats a challenge page as a page without listings
extract_challenge_as_empty(html) ==
    IF ~html.articleContext THEN Ok(<<>>)
    ELSE IF ~html.searchResults.match \/ html.searchResults.blank THEN Ok(<<>>)
    ELSE IF html.searchResults.parses THEN Ok(html.searchResults.rows)
    ELSE Ok(<<>>)

\* A variant that lets the parse error of the embedded array out
extract_raising_parse_error(html) ==
    IF ~html.articleContext
    THEN IF html.cf_browser_verification \/ html.challenge_platform
         THEN RaiseMsg(Challenged.type, Challenged.msg)
         ELSE Ok(<<>>)
    ELSE IF ~html.searchResults.match \/ html.searchResults.blank THEN Ok(<<>>)
    ELSE IF html.searchResults.parses THEN Ok(html.searchResults.rows)
    ELSE RaiseMsg("json.JSONDecodeError", "Expecting value")

\* extract_search_results, lines 526-553
extract_search_results(html) ==
    IF ~html.articleContext
    THEN IF html.cf_browser_verification \/ html.challenge_platform
         THEN RaiseMsg(Challenged.type, Challenged.msg)
         ELSE Ok(<<>>)
    ELSE IF ~html.searchResults.match \/ html.searchResults.blank THEN Ok(<<>>)
    ELSE IF html.searchResults.parses THEN Ok(html.searchResults.rows)
    ELSE Ok(<<>>)

(***************************************************************************)
(* SCRAPING ORCHESTRATION                                                  *)
(***************************************************************************)
Library_Research_Session ==
    <<"L", "i", "b", "r", "a", "r", "y", " ", "R", "e", "s", "e", "a", "r", "c", "h", " ",
      "S", "e", "s", "s", "i", "o", "n">>

Hashable(x) == x.k \notin {"list", "dict"}

Caught(e) == e \in {"IndexError", "ValueError"}

\* A variant that appends without consulting the seen set
admit_without_seen_check(screenings, seen, parsed) ==
    IF parsed.exc # "none"
    THEN [exc |-> IF Caught(parsed.exc) THEN "none" ELSE parsed.exc,
          all_screenings |-> screenings, seen_ids |-> seen]
    ELSE IF parsed.val.title.k # "str"
    THEN [exc |-> "AttributeError", all_screenings |-> screenings, seen_ids |-> seen]
    ELSE IF strip(parsed.val.title.v) = Library_Research_Session
    THEN [exc |-> "none", all_screenings |-> screenings, seen_ids |-> seen]
    ELSE IF ~Hashable(parsed.val.id)
    THEN [exc |-> "TypeError", all_screenings |-> screenings, seen_ids |-> seen]
    ELSE [exc |-> "none",
          all_screenings |-> Append(screenings, parsed.val),
          seen_ids |-> seen \cup {parsed.val.id}]

\* A variant that marks the identifier of a discarded placeholder as seen
admit_marking_placeholder(found, seen, parsed) ==
    IF parsed.exc # "none"
    THEN [exc |-> IF Caught(parsed.exc) THEN "none" ELSE parsed.exc,
          all_screenings |-> found, seen_ids |-> seen]
    ELSE IF parsed.val.title.k # "str"
    THEN [exc |-> "AttributeError", all_screenings |-> found, seen_ids |-> seen]
    ELSE IF ~Hashable(parsed.val.id)
    THEN [exc |-> "TypeError", all_screenings |-> found, seen_ids |-> seen]
    ELSE IF strip(parsed.val.title.v) = Library_Research_Session
    THEN [exc |-> "none", all_screenings |-> found, seen_ids |-> seen \cup {parsed.val.id}]
    ELSE IF parsed.val.id \notin seen
    THEN [exc |-> "none",
          all_screenings |-> Append(found, parsed.val),
          seen_ids |-> seen \cup {parsed.val.id}]
    ELSE [exc |-> "none", all_screenings |-> found, seen_ids |-> seen]

\* lines 582-589, given what parse_screening(row) did
admit(screenings, seen, parsed) ==
    IF parsed.exc # "none"
    THEN [exc |-> IF Caught(parsed.exc) THEN "none" ELSE parsed.exc,
          all_screenings |-> screenings, seen_ids |-> seen]
    ELSE IF parsed.val.title.k # "str"
    THEN [exc |-> "AttributeError", all_screenings |-> screenings, seen_ids |-> seen]
    ELSE IF strip(parsed.val.title.v) = Library_Research_Session
    THEN [exc |-> "none", all_screenings |-> screenings, seen_ids |-> seen]
    ELSE IF ~Hashable(parsed.val.id)
    THEN [exc |-> "TypeError", all_screenings |-> screenings, seen_ids |-> seen]
    ELSE IF parsed.val.id \notin seen
    THEN [exc |-> "none",
          all_screenings |-> Append(screenings, parsed.val),
          seen_ids |-> seen \cup {parsed.val.id}]
    ELSE [exc |-> "none", all_screenings |-> screenings, seen_ids |-> seen]

\* One pass of the loop body, lines 580-589: the new collection and seen set,
\* or the exception that leaves the loop.
process_row(screenings, seen, row) == admit(screenings, seen, parse_screening(row))

\* list.sort(key=lambda s: s.datetime), line 593: a stable sort
RECURSIVE InsertByDatetime(_, _)
InsertByDatetime(sorted, s) ==
    IF sorted = <<>> THEN <<s>>
    ELSE IF TupleLE(Head(sorted).datetime, s.datetime)
         THEN <<Head(sorted)>> \o InsertByDatetime(Tail(sorted), s)
         ELSE <<s>> \o sorted

RECURSIVE SortRec(_)
SortRec(xs) ==
    IF xs = <<>> THEN <<>>
    ELSE InsertByDatetime(SortRec(SubSeq(xs, 1, Len(xs) - 1)), xs[Len(xs)])

\* A variant that leaves the collection in admission order
sort_left_unsorted(xs) == xs

sort_by_datetime(xs) == SortRec(xs)

(***************************************************************************)
(* The pages the site is taken to answer with.                             *)
(***************************************************************************)
Cell(fs, i) == IF i \in DOMAIN fs THEN fs[i] ELSE Str(<<>>)
MkRow(n, fs) == Lst([i \in 1..n |-> Cell(fs, i - 1)])

T1430 == Str(<<"1", "4", ":", "3", "0">>)
T0900 == Str(<<"0", "9", ":", "0", "0">>)
Y2024 == Str(<<"2", "0", "2", "4">>)

RowFields(id, title, time, day, month, sales, avail) ==
    (Fields_ID :> id) @@ (Fields_TITLE :> title) @@ (Fields_TIME :> time)
    @@ (Fields_DAY :> day) @@ (Fields_MONTH :> month) @@ (Fields_YEAR :> Y2024)
    @@ (Fields_SALES_STATUS :> sales) @@ (Fields_AVAILABILITY :> avail)

\* identifier "1", 2024-01-05 14:30
RowA == MkRow(16, RowFields(Str(<<"1">>), Str(<<"A", " ", "&", "a", "m", "p", ";", " ", "B">>),
                            T1430, Str(<<"5">>), Str(<<"0">>), Str(<<"S">>), Str(<<"G">>)))
\* identifier "1" again, other title, time and availability: 2024-01-04 09:00
RowA2 == MkRow(16, RowFields(Str(<<"1">>), Str(<<"C">>),
                             T0900, Str(<<"4">>), Str(<<"0">>), Str(<<"N">>), Str(<<"S">>)))
\* identifier "2", 2024-01-03 14:30
RowB == MkRow(16, RowFields(Str(<<"2">>), Str(<<"D">>),
                            T1430, Str(<<"3">>), Str(<<"0">>), Str(<<"S">>), Str(<<"L">>)))
\* identifier "2", the placeholder entry
RowLibrary == MkRow(16, RowFields(Str(<<"2">>), Str(Library_Research_Session),
                                  T0900, Str(<<"5">>), Str(<<"0">>), Str(<<"S">>), Str(<<"E">>)))
\* identifier "3", the placeholder entry with a blank before it
RowLibraryPadded == MkRow(16, RowFields(Str(<<"3">>), Str(<<" ">> \o Library_Research_Session),
                                        T0900, Str(<<"5">>), Str(<<"0">>), Str(<<"S">>), Str(<<"E">>)))
\* a row cut short before the sales-status column
RowShort == MkRow(12, RowFields(Str(<<"2">>), Str(<<"D">>),
                                T1430, Str(<<"3">>), Str(<<"0">>), Str(<<"S">>), Str(<<"L">>)))
\* a row whose time column was parsed as a number
RowNumericTime == MkRow(16, RowFields(Str(<<"2">>), Str(<<"D">>),
                                      Num(1430), Str(<<"3">>), Str(<<"0">>), Str(<<"S">>), Str(<<"L">>)))

SampleRows == {RowA, RowA2, RowB, RowLibrary, RowLibraryPadded, RowShort, RowNumericTime}

RowLists == SeqsUpTo(SampleRows, MaxRows) \ {<<>>}

Pages ==
    { Page(FALSE, cf, cp, NoMatch) : cf \in BOOLEAN, cp \in BOOLEAN }
    \cup { Page(TRUE, cf, cp, sr) :
             cf \in BOOLEAN, cp \in BOOLEAN, sr \in {NoMatch, BlankCapture, BadCapture} }
    \cup { Page(TRUE, FALSE, FALSE, GoodCapture(rs)) : rs \in RowLists }
    \cup { Page(TRUE, FALSE, TRUE, GoodCapture(<<r>>)) : r \in SampleRows }

Responses ==
    { Failure("requests.ConnectionError"), Failure("requests.Timeout"),
      Response(403, NoPage), Response(500, NoPage) }
    \cup { Response(200, page) : page \in Pages }

\* lines 560-566: scrape_screenings calls load_cookies()
Scrape_Start ==
    /\ pc = "start"
    /\ pc' = "load_cookies"
    /\ lc_pc' = "profile"
    /\ UNCHANGED <<system, firefox_dir, profile_dirs, cookies_db, store, domain, temp_db,
                   conn, domains_to_search, cookies, lc_exc, copy_started>>
    /\ UNCHANGED <<days_ahead, day_offset, html_content, rows, all_screenings, seen_ids,
                   exc, result, fetched, first_obs>>
    /\ UNCHANGED <<record_vars, command_vars>>

\* lines 566-569: load_cookies has returned or raised
Scrape_Cookies ==
    /\ pc = "load_cookies"
    /\ lc_pc \in {"returned", "raised"}
    /\ IF lc_pc = "raised"
       THEN pc' = "raised" /\ exc' = lc_exc /\ UNCHANGED <<all_screenings, seen_ids>>
       ELSE pc' = "loop" /\ all_screenings' = <<>> /\ seen_ids' = {} /\ UNCHANGED exc
    /\ UNCHANGED <<cookie_vars, record_vars, command_vars>>
    /\ UNCHANGED <<days_ahead, day_offset, html_content, rows, result, fetched, first_obs>>

\* lines 571-575: the next day is fetched
Scrape_Fetch ==
    /\ pc = "loop"
    /\ day_offset < days_ahead
    /\ \E response \in Responses :
         \E got \in {fetch_single_day(response)} :
             /\ fetched' = Append(fetched, [raised |-> response.raised,
                                            status_code |-> response.status_code])
             /\ IF got.exc # "none"
                THEN pc' = "raised" /\ exc' = Exc(got.exc, got.msg) /\ UNCHANGED html_content
                ELSE pc' = "extract" /\ html_content' = got.val /\ UNCHANGED exc
    /\ UNCHANGED <<cookie_vars, record_vars, command_vars>>
    /\ UNCHANGED <<days_ahead, day_offset, rows, all_screenings, seen_ids, result, first_obs>>

\* lines 576-578
Scrape_Extract ==
    /\ pc = "extract"
    /\ \E got \in {extract_search_results(html_content)} :
         IF got.exc # "none"
         THEN pc' = "raised" /\ exc' = Exc(got.exc, got.msg) /\ UNCHANGED rows
         ELSE pc' = "rows" /\ rows' = got.val /\ UNCHANGED exc
    /\ UNCHANGED <<cookie_vars, record_vars, command_vars>>
    /\ UNCHANGED <<days_ahead, day_offset, html_content, all_screenings, seen_ids, result,
                   fetched, first_obs>>

ObserveParsed(obs, parsed) ==
    IF /\ parsed.exc = "none"
       /\ parsed.val.title.k = "str"
       /\ strip(parsed.val.title.v) # Library_Research_Session
       /\ \A i \in 1..Len(obs) : obs[i].id # parsed.val.id
    THEN Append(obs, parsed.val)
    ELSE obs

\* The first admissible observation of each identifier, in the order observed.
Observe(obs, row) == ObserveParsed(obs, parse_screening(row))

\* lines 579-589: one row of the day
Scrape_Row ==
    /\ pc = "rows"
    /\ rows # <<>>
    /\ \E after \in {process_row(all_screenings, seen_ids, Head(rows))} :
         IF after.exc # "none"
         THEN /\ pc' = "raised" /\ exc' = Exc(after.exc, "")
              /\ UNCHANGED <<rows, all_screenings, seen_ids, first_obs>>
         ELSE /\ all_screenings' = after.all_screenings
              /\ seen_ids' = after.seen_ids
              /\ rows' = Tail(rows)
              /\ first_obs' = Observe(first_obs, Head(rows))
              /\ UNCHANGED <<pc, exc>>
    /\ UNCHANGED <<cookie_vars, record_vars, command_vars>>
    /\ UNCHANGED <<days_ahead, day_offset, html_content, result, fetched>>

\* line 591, and the loop's next iteration
Scrape_EndDay ==
    /\ pc = "rows"
    /\ rows = <<>>
    /\ day_offset' = day_offset + 1
    /\ pc' = "loop"
    /\ UNCHANGED <<cookie_vars, record_vars, command_vars>>
    /\ UNCHANGED <<days_ahead, html_content, rows, all_screenings, seen_ids, exc, result,
                   fetched, first_obs>>

\* lines 593-596
Scrape_Return ==
    /\ pc = "loop"
    /\ day_offset >= days_ahead
    /\ all_screenings' = sort_by_datetime(all_screenings)
    /\ result' = all_screenings'
    /\ pc' = "returned"
    /\ UNCHANGED <<cookie_vars, record_vars, command_vars>>
    /\ UNCHANGED <<days_ahead, day_offset, html_content, rows, seen_ids, exc, fetched,
                   first_obs>>

scrape_screenings ==
    \/ Scrape_Start
    \/ Scrape_Cookies
    \/ Scrape_Fetch
    \/ Scrape_Extract
    \/ Scrape_Row
    \/ Scrape_EndDay
    \/ Scrape_Return

\* scrape_screenings(start_date, days_ahead) on a fresh process
Init ==
    /\ \E env \in ScrapeEnvs : CookiesIdle(env)
    /\ domain = WhatsonHost
    /\ lc_pc = "idle"
    /\ pc = "start"
    /\ days_ahead \in 0..MaxDays
    /\ day_offset = 0 /\ html_content = NoPage /\ rows = <<>>
    /\ all_screenings = <<>> /\ seen_ids = {} /\ exc = NoExc /\ result = NoResult
    /\ fetched = <<>> /\ first_obs = <<>>
    /\ RecordsIdle /\ CommandsIdle

Next == load_cookies \/ scrape_screenings

Spec == Init /\ [][Next]_vars

(***************************************************************************)
(* Venue and Screening values: equality, hashing, to_dict and from_dict.   *)
(***************************************************************************)
\* The __eq__ that @dataclass generates for Venue: the field tuples are compared
Venue_eq(a, b) == <<a.id, a.name, a.short_name>> = <<b.id, b.name, b.short_name>>

\* hash() of a str, as a value that equal strings share
hash(x) == <<"hash", x>>

\* Venue.__hash__
Venue_hash(v) == hash(v.id)

\* Enum.value of the members of Availability and SalesStatus
Availability_value(member) ==
    CASE member = "EXCELLENT" -> Str(<<"E">>)
      [] member = "GOOD" -> Str(<<"G">>)
      [] member = "LIMITED" -> Str(<<"L">>)
      [] member = "SOLD_OUT" -> Str(<<"S">>)
      [] member = "UNKNOWN" -> Str(<<"?">>)

SalesStatus_value(member) ==
    CASE member = "ON_SALE" -> Str(<<"S">>)
      [] member = "NOT_ON_SALE" -> Str(<<"N">>)
      [] member = "UNKNOWN" -> Str(<<"?">>)

\* Screening.is_available
is_available(s) == s.availability # "SOLD_OUT"

\* The decimal digits of n >= 0
RECURSIVE DigitsOf(_)
DigitsOf(n) ==
    IF n < 10 THEN <<Digits[n + 1]>> ELSE DigitsOf(n \div 10) \o <<Digits[(n % 10) + 1]>>

\* '%0*d' % (width, n)
Zfill(n, width) ==
    LET d == DigitsOf(n)
    IN  IF Len(d) >= width THEN d ELSE [i \in 1..(width - Len(d)) |-> "0"] \o d

\* A variant that writes the date alone
isoformat_date_only(t) ==
    Zfill(t[1], 4) \o <<"-">> \o Zfill(t[2], 2) \o <<"-">> \o Zfill(t[3], 2)

\* datetime.isoformat() of a date-time without seconds or microseconds
isoformat(t) ==
    Zfill(t[1], 4) \o <<"-">> \o Zfill(t[2], 2) \o <<"-">> \o Zfill(t[3], 2)
    \o <<"T">> \o Zfill(t[4], 2) \o <<":">> \o Zfill(t[5], 2) \o <<":", "0", "0">>

AllDigits(s) == s # <<>> /\ \A i \in 1..Len(s) : IsDigit(s[i])

\* The number written at s[a:b], or -1 when those characters are not all digits
Field(s, a, b) == IF AllDigits(Slice(s, a, b)) THEN DecimalValue(Slice(s, a, b)) ELSE 0 - 1

\* A date-time whose second is not 00 gets a sixth component
WithSecond(when, second) ==
    IF when.exc # "none" \/ second = 0 THEN when ELSE Ok(Append(when.val, second))

IsoShape(s) ==
    /\ Len(s) \in {10, 16, 19}
    /\ s[5] = "-" /\ s[8] = "-"
    /\ Len(s) > 10 => (s[11] \in {"T", " "} /\ s[14] = ":")
    /\ Len(s) > 16 => (s[17] = ":" /\ Field(s, 17, 19) \in 0..59)

\* datetime.fromisoformat(x) for the forms YYYY-MM-DD, YYYY-MM-DDTHH:MM and
\* YYYY-MM-DDTHH:MM:SS
fromisoformat(x) ==
    IF x.k # "str" THEN Raise("TypeError")
    ELSE IF ~IsoShape(x.v) THEN Raise("ValueError")
    ELSE WithSecond(datetime(Field(x.v, 0, 4), Field(x.v, 5, 7), Field(x.v, 8, 10),
                             IF Len(x.v) > 10 THEN Field(x.v, 11, 13) ELSE 0,
                             IF Len(x.v) > 10 THEN Field(x.v, 14, 16) ELSE 0),
                    IF Len(x.v) = 19 THEN Field(x.v, 17, 19) ELSE 0)

\* Screening.to_dict, lines 202-215
to_dict(s) ==
    [id |-> s.id,
     title |-> s.title,
     datetime |-> Str(isoformat(s.datetime)),
     venue_id |-> s.venue.id,
     venue_name |-> s.venue.name,
     venue_short |-> Str(s.venue.short_name),
     availability |-> Availability_value(s.availability),
     sales_status |-> SalesStatus_value(s.sales_status),
     seats_available |-> s.seats_available,
     keywords |-> s.keywords,
     min_price |-> s.min_price,
     max_price |-> s.max_price,
     article_url |-> s.article_url]

\* The constructor call of from_dict, its two fallible arguments already evaluated
Screening_from(d, when, short) ==
    IF when.exc # "none" THEN when
    ELSE IF short.exc # "none" THEN short
    ELSE Ok([id |-> d.id,
             title |-> d.title,
             datetime |-> when.val,
             venue |-> [id |-> d.venue_id, name |-> d.venue_name, short_name |-> short.val],
             availability |-> Availability_from_code(d.availability),
             sales_status |-> SalesStatus_from_code(d.sales_status),
             seats_available |-> d.seats_available,
             keywords |-> filter_keywords(d.keywords),
             min_price |-> d.min_price,
             max_price |-> d.max_price,
             article_url |-> d.article_url])

\* Screening.from_dict, lines 217-233, of a dict that holds every key
from_dict(d) == Screening_from(d, fromisoformat(d.datetime), normalise_venue_short(d.venue_short))

(***************************************************************************)
(* FILTERING                                                               *)
(***************************************************************************)
\* lines 613-615
by_venue(found, venue) ==
    IF ~Truthy(venue) THEN found
    ELSE LET Keep(s) == \/ Contains(lower(s.venue.short_name), lower(venue.v))
                        \/ Contains(lower(s.venue.name.v), lower(venue.v))
         IN  SelectSeq(found, Keep)

\* lines 616-617
by_available(found, available_only) ==
    IF available_only THEN SelectSeq(found, is_available) ELSE found

\* lines 618-620
by_title(found, title_contains) ==
    IF ~Truthy(title_contains) THEN found
    ELSE LET Keep(s) == Contains(lower(s.title.v), lower(title_contains.v))
         IN  SelectSeq(found, Keep)

\* lines 621-623
by_keyword(found, keyword) ==
    IF ~Truthy(keyword) THEN found
    ELSE LET Keep(s) == \E i \in 1..Len(s.keywords) :
                            Contains(lower(s.keywords[i]), lower(keyword.v))
         IN  SelectSeq(found, Keep)

\* A variant that leaves the keyword criterion out
filter_screenings_without_keyword(found, venue, available_only, title_contains, keyword) ==
    by_title(by_available(by_venue(found, venue), available_only), title_contains)

\* filter_screenings, lines 603-625
filter_screenings(found, venue, available_only, title_contains, keyword) ==
    by_keyword(by_title(by_available(by_venue(found, venue), available_only),
                        title_contains), keyword)

(***************************************************************************)
(* The rows, stored records, collections and venues the operations above   *)
(* are applied to.                                                         *)
(***************************************************************************)
MaxScreenings == 2

AllFields(day, month, avail, seats, keywords, short) ==
    RowFields(Str(<<"7">>), Str(<<"A", " ", "&", "a", "m", "p", ";", " ", "B">>),
              T1430, day, month, Str(<<"S">>), avail)
    @@ (Fields_SEATS_AVAILABLE :> seats) @@ (Fields_KEYWORDS :> keywords)
    @@ (Fields_ARTICLE_URL :> Str(<<"p", "/", "x">>))
    @@ (Fields_VENUE_ID :> Str(<<"v", "1">>))
    @@ (Fields_VENUE_NAME :> Str(<<"N", "F", "T", "1">>))
    @@ (Fields_VENUE_SHORT :> short)
    @@ (Fields_MIN_PRICE :> Str(<<"5">>)) @@ (Fields_MAX_PRICE :> Str(<<"1", "0">>))

RowLengths ==
    {Fields_SEATS_AVAILABLE, Fields_KEYWORDS, Fields_ARTICLE_URL, Fields_ARTICLE_URL + 1,
     Fields_VENUE_SHORT + 1, Fields_MIN_PRICE, Fields_MAX_PRICE, Fields_MAX_PRICE + 1}
DayCells == {Str(<<"5">>), Str(<<"3", "1">>)}
MonthCells == {Str(<<"0">>), Str(<<"1">>), Str(<<"1", "1">>), Str(<<"1", "2">>)}
AvailabilityCells == {Str(<<"G">>), Str(<<"X">>)}
SeatCells == {Str(<<"4", "2">>), Str(<<"n", "/", "a">>)}
KeywordCells ==
    { Str(<<>>),
      Str(<<"P", "r", "e", "v", "i", "e", "w", "s", ",", " ", "Q", "&", "A">>),
      Str(<<" ", "Q", "&", "A", " ", ",", ",", "R", "e", "l", "e", "a", "s", "e", "s", " ",
            ",", "p", "r", "e", "v", "i", "e", "w", "s">>),
      None }
ShortCells == {Str(<<" ">> \o Southbank_NFT2_GA \o <<" ">>), Str(<<"N", "F", "T", "1">>)}

DecodeRows ==
    { MkRow(n, AllFields(day, month, avail, seats, keywords, short)) :
        n \in RowLengths, day \in DayCells, month \in MonthCells, avail \in AvailabilityCells,
        seats \in SeatCells, keywords \in KeywordCells, short \in ShortCells }

\* Catalog entries as a file may hold them: the keyword lists are not the decoder's
StoredRow ==
    MkRow(Fields_MAX_PRICE + 1,
          AllFields(Str(<<"5">>), Str(<<"0">>), Str(<<"G">>), Str(<<"4", "2">>), Str(<<>>),
                    Str(NFT2_GA)))
StoredKeywords ==
    { <<>>,
      << <<" ">> \o Previews \o <<" ">>, <<"Q", "&", "A">> >>,
      << <<"p", "r", "e", "v", "i", "e", "w", "s">>, Releases, <<"a">>, Closed_captions >> }
\* The records that decoding the given rows produces
Records(some_rows) ==
    {p.val : p \in {q \in {parse_screening(r) : r \in some_rows} : q.exc = "none"}}

StoredDicts ==
    { [to_dict(s) EXCEPT !.keywords = kw] : s \in Records({StoredRow}), kw \in StoredKeywords }

FilmRow(id, title, avail, keywords, name, short) ==
    MkRow(Fields_VENUE_SHORT + 1,
          RowFields(id, title, T1430, Str(<<"5">>), Str(<<"0">>), Str(<<"S">>), avail)
          @@ (Fields_KEYWORDS :> keywords) @@ (Fields_VENUE_ID :> id)
          @@ (Fields_VENUE_NAME :> name) @@ (Fields_VENUE_SHORT :> short))

Film1 ==
    FilmRow(Str(<<"1">>), Str(<<"F", "i", "l", "m", " ", "O", "n", "e">>), Str(<<"G">>),
            Str(<<"Q", "&", "A", ",", "I", "n", "t", "r", "o">>),
            Str(<<"B", "F", "I", " ", "N", "F", "T", "1">>), Str(<<"N", "F", "T", "1">>))
Film2 ==
    FilmRow(Str(<<"2">>), Str(<<"O", "t", "h", "e", "r">>), Str(<<"S">>),
            Str(<<>>), Str(<<"S", "t", "u", "d", "i", "o">>), Str(NFT2_GA))
Film3 ==
    FilmRow(Str(<<"3">>), Str(<<"F", "I", "L", "M", " ", "t", "w", "o">>), Str(<<"L">>),
            Str(<<"q", "&", "a", " ", "l", "i", "v", "e">>),
            Str(<<"B", "f", "i", " ", "I", "m", "a", "x">>), Str(<<"I", "M", "A", "X">>))

FilmRecords == Records({Film1, Film2, Film3})
Collections == SeqsUpTo(FilmRecords, MaxScreenings)

Criteria(venue, available_only, title_contains, keyword) ==
    [venue |-> venue, available_only |-> available_only, title_contains |-> title_contains,
     keyword |-> keyword]
CriteriaSets ==
    { Criteria(venue, available_only, title_contains, keyword) :
        venue \in {None, Str(<<>>), Str(<<"n", "f", "t">>), Str(<<"B", "F", "I">>)},
        available_only \in BOOLEAN,
        title_contains \in {None, Str(<<"f", "i", "l", "m">>)},
        keyword \in {None, Str(<<"Q", "&", "A">>)} }

Venue(id, name, short_name) == [id |-> id, name |-> name, short_name |-> short_name]
Venues ==
    { Venue(Str(id), Str(name), short) :
        id \in {<<"v", "1">>, <<"v", "2">>}, name \in {<<"N", "F", "T", "1">>, <<"I", "M", "A", "X">>},
        short \in {<<"N", "1">>, <<"I", "X">>} }
VenuePairs == {<<a, b>> : a \in Venues, b \in Venues}

(***************************************************************************)
(* The operations on records, each applied to its argument.                *)
(***************************************************************************)
\* parse_screening(arg_row)
Rec_Parse ==
    /\ rec_pc = "row"
    /\ screening' = parse_screening(arg_row)
    /\ rec_pc' = "parsed"
    /\ UNCHANGED <<arg_row, data, loaded, arg_screenings, criteria, results,
                   venues, venues_equal, hashes_equal>>
    /\ UNCHANGED <<cookie_vars, scrape_vars, command_vars>>

\* screening.to_dict()
Rec_ToDict ==
    /\ rec_pc = "parsed"
    /\ screening.exc = "none"
    /\ data' = to_dict(screening.val)
    /\ rec_pc' = "stored"
    /\ UNCHANGED <<arg_row, screening, loaded, arg_screenings, criteria, results,
                   venues, venues_equal, hashes_equal>>
    /\ UNCHANGED <<cookie_vars, scrape_vars, command_vars>>

\* Screening.from_dict(data)
Rec_FromDict ==
    /\ rec_pc = "stored"
    /\ loaded' = from_dict(data)
    /\ rec_pc' = "loaded"
    /\ UNCHANGED <<arg_row, screening, data, arg_screenings, criteria, results,
                   venues, venues_equal, hashes_equal>>
    /\ UNCHANGED <<cookie_vars, scrape_vars, command_vars>>

\* filter_screenings(arg_screenings, **criteria)
Rec_Filter ==
    /\ rec_pc = "collection"
    /\ results' = filter_screenings(arg_screenings, criteria.venue, criteria.available_only,
                                    criteria.title_contains, criteria.keyword)
    /\ rec_pc' = "filtered"
    /\ UNCHANGED <<arg_row, screening, data, loaded, arg_screenings, criteria,
                   venues, venues_equal, hashes_equal>>
    /\ UNCHANGED <<cookie_vars, scrape_vars, command_vars>>

\* venues[1] == venues[2] and hash(venues[1]) == hash(venues[2])
Rec_CompareVenues ==
    /\ rec_pc = "venues"
    /\ venues_equal' = Venue_eq(venues[1], venues[2])
    /\ hashes_equal' = (Venue_hash(venues[1]) = Venue_hash(venues[2]))
    /\ rec_pc' = "compared"
    /\ UNCHANGED <<arg_row, screening, data, loaded, arg_screenings, criteria, results,
                   venues>>
    /\ UNCHANGED <<cookie_vars, scrape_vars, command_vars>>

\* One argument is drawn; everything else is as nothing had been applied
InitRecords ==
    /\ CookiesIdle(Env("Linux", TRUE, <<ProfileDefault, ProfileRelease>>, TRUE, Store(StoreBfi)))
    /\ domain = WhatsonHost /\ lc_pc = "idle"
    /\ pc = "idle" /\ ScrapeIdle
    /\ CommandsIdle
    /\ screening = NotApplied /\ loaded = NotApplied /\ results = <<>>
    /\ venues_equal = FALSE /\ hashes_equal = FALSE
    /\ \/ /\ rec_pc = "row" /\ arg_row \in DecodeRows
          /\ data = None /\ arg_screenings = <<>> /\ criteria = NoCriteria /\ venues = <<>>
       \/ /\ rec_pc = "stored" /\ data \in StoredDicts
          /\ arg_row = None /\ arg_screenings = <<>> /\ criteria = NoCriteria /\ venues = <<>>
       \/ /\ rec_pc = "collection" /\ arg_screenings \in Collections /\ criteria \in CriteriaSets
          /\ arg_row = None /\ data = None /\ venues = <<>>
       \/ /\ rec_pc = "venues" /\ venues \in VenuePairs
          /\ arg_row = None /\ data = None /\ arg_screenings = <<>> /\ criteria = NoCriteria

NextRecords ==
    \/ Rec_Parse
    \/ Rec_ToDict
    \/ Rec_FromDict
    \/ Rec_Filter
    \/ Rec_CompareVenues

SpecRecords == InitRecords /\ [][NextRecords]_vars

(***************************************************************************)
(* PERSISTENCE and CLI COMMANDS                                            *)
(***************************************************************************)
DEFAULT_DAYS_AHEAD == 14

\* The day count handed to scrape_screenings, cut to the window of the model
Window(days) == IF days > MaxDays - 1 THEN MaxDays - 1 ELSE days

\* save_screenings, lines 628-636: the file holds one dict per screening
save_screenings(found) ==
    [exists |-> TRUE, screenings |-> [i \in 1..Len(found) |-> to_dict(found[i])]]

\* load_screenings, lines 639-644: what from_dict did with each stored dict
load_screenings(file) ==
    IF ~file.exists THEN <<>>
    ELSE [i \in 1..Len(file.screenings) |-> from_dict(file.screenings[i])]

ValuesOf(outcomes) == [i \in 1..Len(outcomes) |-> outcomes[i].val]

\* [s for s in screenings if s.datetime >= now], lines 990-991
upcoming(found, now) ==
    LET Keep(s) == TupleLE(now, s.datetime)
    IN  SelectSeq(found, Keep)

\* What the command does with the screenings it has scraped or loaded
shown(cmd, found, now) ==
    CASE cmd.command = "list" ->
            filter_screenings(found, cmd.criteria.venue, cmd.criteria.available_only,
                              cmd.criteria.title_contains, cmd.criteria.keyword)
      [] cmd.command = "static" -> upcoming(found, now)
      [] OTHER -> <<>>

\* Does the command scrape (and then save) before anything else
refreshes(cmd, file) ==
    \/ cmd.command = "fetch"
    \/ cmd.command = "serve" /\ cmd.refresh
    \/ cmd.command \in {"list", "static"} /\ (cmd.refresh \/ ~file.exists)

Args(command, days, refresh, c) ==
    [command |-> command, days |-> days, refresh |-> refresh, criteria |-> c]

OldFile == [exists |-> TRUE, screenings |-> <<CHOOSE d \in StoredDicts : d.keywords = <<>> >>]
Nows == {<<2024, 1, 1, 0, 0>>, <<2024, 1, 5, 0, 0>>}

\* The command lines run, each with the catalog file it finds
CommandRuns ==
    { <<Args("fetch", MaxDays - 2, FALSE, NoCriteria), OldFile>>,
      <<Args("serve", DEFAULT_DAYS_AHEAD, TRUE, NoCriteria), OldFile>>,
      <<Args("serve", DEFAULT_DAYS_AHEAD, FALSE, NoCriteria), OldFile>>,
      <<Args("list", MaxDays - 2, TRUE, Criteria(None, TRUE, None, None)), OldFile>>,
      <<Args("list", MaxDays - 2, FALSE, Criteria(Str(<<"n", "f", "t">>), FALSE, None, None)),
        OldFile>>,
      <<Args("static", MaxDays - 2, FALSE, NoCriteria), NoFile>>,
      <<Args("static", MaxDays - 2, FALSE, NoCriteria), OldFile>> }

\* The command begins: it calls scrape_screenings, or loads the catalog, or serves
Cmd_Start ==
    /\ cmd_pc = "start"
    /\ IF refreshes(args, data_file)
       THEN /\ pc' = "start"
            /\ days_ahead' = Window(IF args.command = "serve" THEN DEFAULT_DAYS_AHEAD
                                                              ELSE args.days)
            /\ cmd_pc' = "scraping"
       ELSE /\ cmd_pc' = IF args.command = "serve" THEN "serving" ELSE "loading"
            /\ UNCHANGED <<pc, days_ahead>>
    /\ UNCHANGED <<day_offset, html_content, rows, all_screenings, seen_ids, exc, result,
                   fetched, first_obs>>
    /\ UNCHANGED <<args, data_file, listed, exit_status>>
    /\ UNCHANGED <<cookie_vars, record_vars>>

\* scrape_screenings has returned: save_screenings, then the rest of the command
Cmd_Save ==
    /\ cmd_pc = "scraping"
    /\ pc = "returned"
    /\ data_file' = save_screenings(result)
    /\ \E now \in Nows : listed' = shown(args, result, now)
    /\ cmd_pc' = IF args.command = "serve" THEN "serving" ELSE "done"
    /\ UNCHANGED <<args, exit_status>>
    /\ UNCHANGED <<cookie_vars, scrape_vars, record_vars>>

\* scrape_screenings has raised: the exception leaves the command, and main ends
\* the process with status 1
Cmd_Abort ==
    /\ cmd_pc = "scraping"
    /\ pc = "raised"
    /\ cmd_pc' = "exited"
    /\ exit_status' = 1
    /\ UNCHANGED <<args, data_file, listed>>
    /\ UNCHANGED <<cookie_vars, scrape_vars, record_vars>>

\* load_screenings, then the rest of the command
Cmd_Load ==
    /\ cmd_pc = "loading"
    /\ \E got \in {load_screenings(data_file)} :
         IF \E i \in 1..Len(got) : got[i].exc # "none"
         THEN cmd_pc' = "exited" /\ exit_status' = 1 /\ UNCHANGED listed
         ELSE /\ \E now \in Nows : listed' = shown(args, ValuesOf(got), now)
              /\ cmd_pc' = "done"
              /\ UNCHANGED exit_status
    /\ UNCHANGED <<args, data_file>>
    /\ UNCHANGED <<cookie_vars, scrape_vars, record_vars>>

commands ==
    \/ Cmd_Start
    \/ Cmd_Save
    \/ Cmd_Abort
    \/ Cmd_Load

\* main() runs one command line on a fresh process
InitCommands ==
    /\ \E env \in ScrapeEnvs : CookiesIdle(env)
    /\ domain = WhatsonHost /\ lc_pc = "idle"
    /\ pc = "idle" /\ ScrapeIdle
    /\ RecordsIdle
    /\ \E run \in CommandRuns : args = run[1] /\ data_file = run[2]
    /\ listed = <<>> /\ cmd_pc = "start" /\ exit_status = 0

NextCommands == load_cookies \/ scrape_screenings \/ commands

SpecCommands == InitCommands /\ [][NextCommands]_vars

(***************************************************************************)
(* Properties of scrape_screenings (specification Spec).                   *)
(***************************************************************************)
HasMarker(html) == html.cf_browser_verification \/ html.challenge_platform

NonAuthFailure(f) ==
    \/ f.raised # "none"
    \/ f.status_code >= 400 /\ f.status_code < 600 /\ f.status_code # 403

\* C1: a day whose fetch fails with a transport error, a timeout or a non-403
\* error status is skipped, so the run is never aborted by it.
C1_FailedDaySkipped ==
    \A d \in 1..Len(fetched) : NonAuthFailure(fetched[d]) => pc # "raised"

C3_ChallengeAbortsRun ==
    [][ /\ pc # "raised"
        /\ (pc = "extract" /\ HasMarker(html_content) /\ ~html_content.articleContext)
              => /\ pc' = "raised" /\ exc' = Challenged /\ result' = NoResult
                 /\ UNCHANGED <<fetched, day_offset, rows, all_screenings, seen_ids>> ]_vars

C3_Witness ==
    /\ pc = "raised" /\ exc = Challenged
    /\ day_offset >= 1 /\ day_offset + 1 < days_ahead
    /\ Len(fetched) = day_offset + 1
    /\ all_screenings # <<>> /\ result = NoResult

\* C4: the returned collection holds one record per identifier, the first
\* admissible observation of it in fetch order, unmerged.
C4_FirstSeenWins ==
    pc = "returned" =>
        /\ \A i, j \in 1..Len(result) : result[i].id = result[j].id => i = j
        /\ \A i \in 1..Len(result) : \E j \in 1..Len(first_obs) : first_obs[j] = result[i]
        /\ \A j \in 1..Len(first_obs) : \E i \in 1..Len(result) : result[i] = first_obs[j]

\* a later observation of a returned identifier, with other field values, was dropped
C4_Witness ==
    /\ pc = "returned"
    /\ \E n \in 1..Len(html_content.searchResults.rows) :
         \E i \in 1..Len(result) :
            \E later \in {parse_screening(html_content.searchResults.rows[n])} :
               /\ later.exc = "none"
               /\ later.val.id = result[i].id
               /\ later.val.availability # result[i].availability
               /\ later.val.title # result[i].title

Minutes(t) == (((t[1] * 12 + t[2]) * 31 + t[3]) * 24 + t[4]) * 60 + t[5]

\* C5: the returned collection is in ascending date-time order.
C5_SortedByDatetime ==
    pc = "returned" =>
        \A i \in 1..(Len(result) - 1) :
            Minutes(result[i].datetime) <= Minutes(result[i + 1].datetime)

\* the records were admitted in another order than the one returned
C5_Witness ==
    /\ pc = "returned" /\ Len(result) >= 2
    /\ result # first_obs
    /\ Minutes(result[1].datetime) < Minutes(result[Len(result)].datetime)

\* C10: a row the decoder cannot turn into a record never ends the run.
C10_MalformedRowSkipped ==
    ~(pc = "raised" /\ rows # <<>> /\ exc.type \notin {"IndexError", "ValueError"})

\* The rows of today's page that the loop has already been through
Handled ==
    IF pc = "rows"
    THEN SubSeq(html_content.searchResults.rows, 1,
                Len(html_content.searchResults.rows) - Len(rows))
    ELSE <<>>

\* The row decodes to a record whose title is text other than t
TitledOtherThan(r, t) ==
    \E p \in {parse_screening(r)} :
        p.exc = "none" /\ p.val.title.k = "str" /\ p.val.title.v # t

IdOf(r) == parse_screening(r).val.id

\* C14: a decoded record is left out of the collection exactly when its title is
\* the placeholder title, character for character: no returned record has that
\* title, and a record with any other title has its identifier in the collection
\* once its row has been handled.
C14_PlaceholderExactMatch ==
    /\ pc = "returned" =>
          \A i \in 1..Len(result) : result[i].title # Str(Library_Research_Session)
    /\ \A n \in 1..Len(Handled) :
          TitledOtherThan(Handled[n], Library_Research_Session) =>
              \E i \in 1..Len(all_screenings) : all_screenings[i].id = IdOf(Handled[n])

ParseFails(html) ==
    /\ html.articleContext
    /\ html.searchResults.match /\ ~html.searchResults.blank /\ ~html.searchResults.parses

\* C15: a page whose embedded array does not parse gives zero rows and no error:
\* the day adds nothing to the collection, the loop moves to the next day, and a
\* day that remains is fetched.
C15_ParseFailureIsZeroRows ==
    [][ /\ (pc = "extract" /\ ParseFails(html_content))
              => /\ pc' = "rows" /\ rows' = <<>> /\ exc' = NoExc
                 /\ UNCHANGED <<all_screenings, seen_ids, day_offset>>
        /\ (pc = "rows" /\ ParseFails(html_content))
              => /\ pc' = "loop" /\ day_offset' = day_offset + 1
                 /\ UNCHANGED <<all_screenings, seen_ids, exc>>
        /\ (pc = "loop" /\ day_offset < days_ahead)
              => Len(fetched') = Len(fetched) + 1 ]_vars

\* the first day's page did not parse, the loop is back at its head, a day remains
C15_Witness ==
    /\ pc = "loop" /\ ParseFails(html_content)
    /\ day_offset = 1 /\ day_offset < days_ahead /\ Len(fetched) = 1
    /\ exc = NoExc

IdsOf(found) == {found[i].id : i \in 1..Len(found)}

\* C20: at every step the seen set is the set of identifiers of the collection and
\* has as many members as the collection has records.
C20_SeenIdsAreCollectionIds ==
    /\ seen_ids = IdsOf(all_screenings)
    /\ Cardinality(seen_ids) = Len(all_screenings)

\* identifier "2" came first on a discarded or refused row, then on a valid one,
\* which was admitted
C20_Witness ==
    /\ pc = "rows" /\ rows = <<>>
    /\ Len(Handled) = 2
    /\ Handled[1] \in {RowLibrary, RowShort} /\ Handled[2] = RowB
    /\ all_screenings = <<parse_screening(RowB).val>>
    /\ seen_ids = {Str(<<"2">>)}

(***************************************************************************)
(* Properties of load_cookies (specification SpecCookies).                 *)
(***************************************************************************)
Labels(host) == split(host, ".")
HasKnownSuffix(host) ==
    Len(Labels(host)) >= 3 /\ join(LastN(Labels(host), 2), ".") \in two_part_tlds
Registrable(host) == join(LastN(Labels(host), 3), ".")
Candidates == {domains_to_search[i] : i \in 1..Len(domains_to_search)}

\* C6: for a host under a known two-label suffix the candidates are the host and
\* its registrable domain (the suffix and one more label), each bare and with a
\* leading dot, and never the bare suffix.
C6_SuffixHostCandidates ==
    (lc_pc = "query" /\ HasKnownSuffix(domain)) =>
        /\ Candidates = {domain, <<".">> \o domain,
                         Registrable(domain), <<".">> \o Registrable(domain)}
        /\ join(LastN(Labels(domain), 2), ".") \notin Candidates

\* C7: the candidate list holds no string twice, and no parent equal to the host.
C7_NoDuplicateCandidates ==
    lc_pc = "query" =>
        /\ \A i, j \in 1..Len(domains_to_search) :
              domains_to_search[i] = domains_to_search[j] => i = j
        /\ \A i \in 3..Len(domains_to_search) : domains_to_search[i] # domain

Exited == lc_pc \in {"returned", "raised"}

\* C8: once the copy has been started, load_cookies leaves no temporary copy behind.
C8_TempCopyRemoved == (copy_started /\ Exited) => ~temp_db

NotFoundConditions == {ProfileNotFound, DatabaseNotFound, NoCookiesFound}

\* C9: a missing profile, a missing store and an empty match fail as not-found;
\* an unrecognised platform fails with another condition than those.
C9_NotSupportedDistinct ==
    lc_pc = "raised" =>
        /\ (system \in RecognisedSystems /\ ~copy_started) => lc_exc \in NotFoundConditions
        /\ system \notin RecognisedSystems => lc_exc \notin NotFoundConditions

(***************************************************************************)
(* Properties of the decoder, the stored form, the filter and Venue        *)
(* (specification SpecRecords).                                            *)
(***************************************************************************)
Parsed == rec_pc \in {"parsed", "stored", "loaded"} /\ arg_row # None
Decoded == Parsed /\ screening.exc = "none"

CellOf(r, i) == IF i < Len(r.v) THEN r.v[i + 1] ELSE None
IsText(cell) == cell.k = "str"
NumberCell(cell) == IsText(cell) /\ AllDigits(cell.v)
ClockCell(cell) ==
    /\ IsText(cell) /\ Len(cell.v) = 5 /\ cell.v[3] = ":"
    /\ Field(cell.v, 0, 2) \in 0..23 /\ Field(cell.v, 3, 5) \in 0..59

\* The year, zero-based month, day and HH:MM cells of r name a moment of the calendar
DateValid(r) ==
    /\ Len(r.v) > Fields_YEAR
    /\ ClockCell(CellOf(r, Fields_TIME))
    /\ NumberCell(CellOf(r, Fields_YEAR)) /\ NumberCell(CellOf(r, Fields_MONTH))
    /\ NumberCell(CellOf(r, Fields_DAY))
    /\ DecimalValue(CellOf(r, Fields_YEAR).v) \in 1..9999
    /\ DecimalValue(CellOf(r, Fields_MONTH).v) \in 0..11
    /\ DecimalValue(CellOf(r, Fields_DAY).v)
          \in 1..DaysInMonth(DecimalValue(CellOf(r, Fields_YEAR).v),
                             DecimalValue(CellOf(r, Fields_MONTH).v) + 1)

RequiredValid(r) ==
    /\ Len(r.v) > Fields_AVAILABILITY
    /\ DateValid(r)
    /\ IsText(CellOf(r, Fields_ID)) /\ IsText(CellOf(r, Fields_TITLE))
    /\ IsText(CellOf(r, Fields_SALES_STATUS)) /\ IsText(CellOf(r, Fields_AVAILABILITY))

\* C11: a row shorter than 80 cells whose required cells are present and valid is
\* decoded, never refused, and each optional field the row is too short to hold is
\* absent in the record.
C11_ShortRowDecodes ==
    (Parsed /\ Len(arg_row.v) < Fields_MIN_PRICE /\ RequiredValid(arg_row)) =>
        /\ screening.exc = "none"
        /\ Len(arg_row.v) <= Fields_SEATS_AVAILABLE => screening.val.seats_available = None
        /\ Len(arg_row.v) <= Fields_KEYWORDS => screening.val.keywords = <<>>
        /\ Len(arg_row.v) <= Fields_ARTICLE_URL => screening.val.article_url = None
        /\ screening.val.min_price = None /\ screening.val.max_price = None

\* C12: a row with a valid year, zero-based month, day and HH:MM time is never
\* refused for its date, and the record's date-time is (year, month + 1, day, HH, MM).
C12_MonthOffsetByOne ==
    (Parsed /\ DateValid(arg_row)) =>
        /\ screening.exc # "ValueError"
        /\ screening.exc = "none" =>
              screening.val.datetime =
                  << DecimalValue(CellOf(arg_row, Fields_YEAR).v),
                     DecimalValue(CellOf(arg_row, Fields_MONTH).v) + 1,
                     DecimalValue(CellOf(arg_row, Fields_DAY).v),
                     Field(CellOf(arg_row, Fields_TIME).v, 0, 2),
                     Field(CellOf(arg_row, Fields_TIME).v, 3, 5) >>

\* source month 11 has become December of the same year
C12_Witness ==
    /\ Decoded
    /\ CellOf(arg_row, Fields_MONTH) = Str(<<"1", "1">>)
    /\ screening.val.datetime = <<2024, 12, 5, 14, 30>>

\* The comma-separated entries of a keyword cell: trimmed, the blank ones left out
KeywordEntries(cell) ==
    LET parts == split(cell.v, ",")
        Named(k) == strip(k) # <<>>
        kept == SelectSeq(parts, Named)
    IN  [i \in 1..Len(kept) |-> strip(kept[i])]
Denylisted(k) == \E u \in UNWANTED_KEYWORDS : strip(k) = u
NotDenylisted(k) == ~Denylisted(k)
KeywordCell(r) == IF Len(r.v) > Fields_KEYWORDS THEN r.v[Fields_KEYWORDS + 1] ELSE Str(<<>>)

\* C13: the keyword list of a decoded record is the row's keyword entries, in order,
\* without the denylisted ones and with all the others; the list of a record loaded
\* by from_dict is the stored list without the denylisted entries.
C13_KeywordsMinusDenylist ==
    /\ Decoded =>
          /\ screening.val.keywords = SelectSeq(KeywordEntries(KeywordCell(arg_row)), NotDenylisted)
          /\ \A i \in 1..Len(screening.val.keywords) : ~Denylisted(screening.val.keywords[i])
    /\ (rec_pc = "loaded" /\ loaded.exc = "none") =>
          /\ loaded.val.keywords = SelectSeq(data.keywords, NotDenylisted)
          /\ \A i \in 1..Len(loaded.val.keywords) : ~Denylisted(loaded.val.keywords[i])

\* a denylisted entry between two others was dropped, its lower-case namesake kept
C13_Witness ==
    /\ Decoded
    /\ \E i \in 1..Len(KeywordEntries(KeywordCell(arg_row))) :
          KeywordEntries(KeywordCell(arg_row))[i] = Releases
    /\ screening.val.keywords = << <<"Q", "&", "A">>, <<"p", "r", "e", "v", "i", "e", "w", "s">> >>

SameLetter(a, b) ==
    a = b \/ \E i \in 1..Len(Upper) : {a, b} = {Upper[i], Lower[i]}
\* needle occurs in hay when letter case is ignored
FoldedIn(needle, hay) ==
    \E k \in 0..(Len(hay) - Len(needle)) :
        \A i \in 1..Len(needle) : SameLetter(hay[k + i], needle[i])

Satisfies(s, c) ==
    /\ c.venue # None => (FoldedIn(c.venue.v, s.venue.short_name) \/ FoldedIn(c.venue.v, s.venue.name.v))
    /\ c.available_only => s.availability # "SOLD_OUT"
    /\ c.title_contains # None => FoldedIn(c.title_contains.v, s.title.v)
    /\ c.keyword # None => \E i \in 1..Len(s.keywords) : FoldedIn(c.keyword.v, s.keywords[i])

C17_RoundTrip ==
    (rec_pc = "loaded" /\ arg_row # None) =>
        /\ loaded.exc = "none"
        /\ loaded.val = screening.val
        /\ \A f \in DOMAIN screening.val : loaded.val[f] = screening.val[f]

\* an alias short code, an unknown availability code and a keyword went through
C17_Witness ==
    /\ rec_pc = "loaded" /\ arg_row # None
    /\ loaded.val.venue.short_name = NFT2
    /\ CellOf(arg_row, Fields_VENUE_SHORT) # Str(NFT2)
    /\ loaded.val.availability = "UNKNOWN"
    /\ loaded.val.keywords # <<>>
    /\ loaded.val.datetime = <<2024, 12, 31, 14, 30>>

\* C18: two venues are equal exactly when their identifiers are, and venues with
\* the same identifier have the same hash.
C18_VenueIdentityIsId ==
    rec_pc = "compared" =>
        /\ venues_equal <=> (venues[1].id = venues[2].id)
        /\ venues[1].id = venues[2].id => hashes_equal

(***************************************************************************)
(* Properties of the commands (specification SpecCommands).                *)
(***************************************************************************)
FetchFailed(f) == f.raised # "none" \/ f.status_code >= 400

\* C19: the catalog file changes only in the step that follows the return of
\* scrape_screenings, after every day of the window has been fetched, and what is
\* written is the returned collection; a run that has raised never writes it.
C19_SaveOnlyAfterFullScrape ==
    [][ /\ data_file' # data_file =>
              /\ cmd_pc = "scraping" /\ pc = "returned"
              /\ Len(fetched) = days_ahead
              /\ \A d \in 1..Len(fetched) : ~FetchFailed(fetched[d])
              /\ data_file' = save_screenings(result)
        /\ (pc = "raised" \/ pc' = "raised") => data_file' = data_file ]_vars

\* a refresh was refused on its second day, with the first day's records collected,
\* and the command has ended with the catalog as it found it
C19_Witness ==
    /\ args.command = "serve" /\ cmd_pc = "exited" /\ exit_status = 1
    /\ pc = "raised" /\ exc = Forbidden403
    /\ day_offset = 1 /\ all_screenings # <<>>
    /\ data_file = OldFile

====
